---- MODULE Spec2Model ----
(***************************************************************************)
(* A model of the demo program of src/src/main.rs: the command-line        *)
(* front-end (main, main_error_chain, main_getopts, main_help,             *)
(* main_version) and the sequential demo runner (main_run and the demo_*   *)
(* routines it calls).                                                     *)
(*                                                                         *)
(* A command-line token is a sequence of one-character strings, so that    *)
(* the option parser can look at its characters the way getopts does.      *)
(* A stream is the sequence of the lines written to it: every write of the *)
(* program (println!, the usage text, a panic message) ends its last line  *)
(* with a newline, so each element stands for a line and its newline.      *)
(***************************************************************************)
EXTENDS Integers, Sequences, FiniteSets, TLC

VARIABLES
    program,    \* args[0], the program name (main.rs:538)
    args,       \* args[1..], the arguments handed to opts.parse (main.rs:546)
    textFile,   \* state of text.txt in the working directory
    pc,         \* position of the single thread of control
    ip,         \* index in main_run of the next demo routine to call
    result,     \* what main_getopts returned to main_error_chain
    stdout,     \* lines written to standard output
    stderr,     \* lines written to standard error
    exitCode,   \* the exit status, NoExit while the process runs
    calls,      \* names of the functions entered so far, in order
    reads,      \* outcome of every read_line on standard input, in order
    test        \* the unit tests of mod tests: what each has done so far

vars == <<program, args, textFile, pc, ip, result, stdout, stderr, exitCode, calls, reads,
          test>>

\* Bounds of the model.
MaxArgs == 3
MaxStrLen == 5

NoExit == "running"

-----------------------------------------------------------------------------
\* Command-line tokens.

Tok_h       == <<"-", "h">>
Tok_help    == <<"-", "-", "h", "e", "l", "p">>
Tok_v       == <<"-", "v">>
Tok_version == <<"-", "-", "v", "e", "r", "s", "i", "o", "n">>
Tok_bogus   == <<"-", "-", "b", "o", "g", "u", "s">>
Tok_x       == <<"-", "x">>
Tok_hv      == <<"-", "h", "v">>
Tok_foo     == <<"f", "o", "o">>
Tok_dashes  == <<"-", "-">>
Tok_helpEq  == <<"-", "-", "h", "e", "l", "p", "=", "x">>

\* The tokens an argument list is drawn from.
ArgTokens ==
    {Tok_h, Tok_help, Tok_v, Tok_version, Tok_bogus, Tok_x, Tok_hv, Tok_foo,
     Tok_dashes, Tok_helpEq}

\* The program names argv[0] is drawn from.
Programs == {"demo", "./target/debug/demo"}

\* The string made of a sequence of one-character strings.
RECURSIVE Str(_)
Str(chars) == IF chars = <<>> THEN "" ELSE Head(chars) \o Str(Tail(chars))

RECURSIVE SeqsUpTo(_, _)
SeqsUpTo(S, n) ==
    IF n = 0 THEN {<<>>}
    ELSE LET shorter == SeqsUpTo(S, n - 1)
         IN  shorter \cup {Append(s, t) : s \in {q \in shorter : Len(q) = n - 1}, t \in S}

-----------------------------------------------------------------------------
\* The option table and getopts' parser.

\* The option table had the two flags been declared with optflagmulti.
OptGroups_Multi ==
    << [short |-> "h", long |-> <<"h", "e", "l", "p">>,
        desc |-> "print the help information",
        hasarg |-> "No", occur |-> "Multi"],
       [short |-> "v", long |-> <<"v", "e", "r", "s", "i", "o", "n">>,
        desc |-> "print the version number",
        hasarg |-> "No", occur |-> "Multi"] >>

\* opts.optflag("h", "help", ...) and opts.optflag("v", "version", ...):
\* two options that take no argument and may occur at most once.
OptGroups ==
    << [short |-> "h", long |-> <<"h", "e", "l", "p">>,
        desc |-> "print the help information",
        hasarg |-> "No", occur |-> "Optional"],
       [short |-> "v", long |-> <<"v", "e", "r", "s", "i", "o", "n">>,
        desc |-> "print the version number",
        hasarg |-> "No", occur |-> "Optional"] >>

\* A name as the parser sees it: Short(ch) or Long(chars).
Short(ch)   == [kind |-> "Short", name |-> <<ch>>]
Long(chars) == [kind |-> "Long", name |-> chars]

\* find_opt: the index in OptGroups of the option a name denotes, 0 when none.
find_opt(nm) ==
    LET hits == {i \in 1..Len(OptGroups) :
                    IF nm.kind = "Short" THEN <<OptGroups[i].short>> = nm.name
                                         ELSE OptGroups[i].long = nm.name}
    IN  IF hits = {} THEN 0 ELSE CHOOSE i \in hits : \A j \in hits : i <= j

\* is_arg: a token is an option when it is longer than one character and
\* starts with a dash; anything else is a free argument.
is_arg(tok) == Len(tok) > 1 /\ tok[1] = "-"

\* Position of the first "=" in a sequence of characters, 0 when none.
FirstEq(chars) ==
    LET at == {i \in 1..Len(chars) : chars[i] = "="}
    IN  IF at = {} THEN 0 ELSE CHOOSE i \in at : \A j \in at : i <= j

\* The names one option token stands for, and the argument glued to it with
\* "=", if any: "--name" or "--name=value" is one long name, "-abc" is the
\* short names a, b, c.
TokenNames(tok) ==
    IF tok[2] = "-"
    THEN LET tail == SubSeq(tok, 3, Len(tok))
             eq   == FirstEq(tail)
         IN  IF eq = 0
             THEN [names |-> <<Long(tail)>>, i_arg |-> FALSE]
             ELSE [names |-> <<Long(SubSeq(tail, 1, eq - 1))>>, i_arg |-> TRUE]
    ELSE [names |-> [j \in 1..(Len(tok) - 1) |-> Short(tok[j + 1])], i_arg |-> FALSE]

Fail(kind, nm) == [ok |-> FALSE, kind |-> kind, name |-> nm]

\* ApplyNames with a name that is not in the table skipped instead of
\* reported.
RECURSIVE ApplyNames_SkipUnknown(_, _, _, _)
ApplyNames_SkipUnknown(names, i_arg, k, vals) ==
    IF k > Len(names) THEN [ok |-> TRUE, vals |-> vals]
    ELSE LET optid == find_opt(names[k])
         IN  IF optid = 0 THEN ApplyNames_SkipUnknown(names, i_arg, k + 1, vals)
             ELSE IF k = Len(names) /\ i_arg
                  THEN Fail("UnexpectedArgument", names[k].name)
                  ELSE ApplyNames_SkipUnknown(names, i_arg, k + 1,
                                  [vals EXCEPT ![optid] = vals[optid] + 1])

\* One option token applied to the occurrence counts vals: every name must
\* be in the table, and a flag must not carry an argument.
RECURSIVE ApplyNames(_, _, _, _)
ApplyNames(names, i_arg, k, vals) ==
    IF k > Len(names) THEN [ok |-> TRUE, vals |-> vals]
    ELSE LET optid == find_opt(names[k])
         IN  IF optid = 0 THEN Fail("UnrecognizedOption", names[k].name)
             ELSE IF k = Len(names) /\ i_arg
                  THEN Fail("UnexpectedArgument", names[k].name)
                  ELSE ApplyNames(names, i_arg, k + 1,
                                  [vals EXCEPT ![optid] = vals[optid] + 1])

\* The occurrence check made after the last token: an option that is not
\* Multi and was given more than once is a failure, named by its long name.
CheckOccur(vals, free) ==
    LET dup == {i \in 1..Len(OptGroups) : OptGroups[i].occur # "Multi" /\ vals[i] > 1}
    IN  IF dup = {}
        THEN [ok |-> TRUE, vals |-> vals, free |-> free]
        ELSE Fail("OptionDuplicated",
                  OptGroups[CHOOSE i \in dup : \A j \in dup : i <= j].long)

\* Options::parse: the tokens from left to right. A free argument is
\* collected and parsing goes on; "--" makes every later token free.
RECURSIVE ParseFrom(_, _, _, _)
ParseFrom(a, i, vals, free) ==
    IF i > Len(a) THEN CheckOccur(vals, free)
    ELSE IF ~is_arg(a[i]) THEN ParseFrom(a, i + 1, vals, Append(free, a[i]))
    ELSE IF a[i] = Tok_dashes THEN CheckOccur(vals, free \o SubSeq(a, i + 1, Len(a)))
    ELSE LET tn == TokenNames(a[i])
             r  == ApplyNames(tn.names, tn.i_arg, 1, vals)
         IN  IF r.ok THEN ParseFrom(a, i + 1, r.vals, free) ELSE r

parse(a) == ParseFrom(a, 1, [i \in 1..Len(OptGroups) |-> 0], <<>>)

\* Matches::opt_present for a short name.
opt_present(m, ch) == m.vals[find_opt(Short(ch))] > 0

\* Fail's Display: the text of a parse failure; the option is named without
\* its dashes.
Fail_to_string(f) ==
    CASE f.kind = "UnrecognizedOption" -> "Unrecognized option: '" \o Str(f.name) \o "'"
      [] f.kind = "UnexpectedArgument" -> "Option '" \o Str(f.name) \o "' does not take an argument"
      [] f.kind = "OptionDuplicated"   -> "Option '" \o Str(f.name) \o "' given more than once"

-----------------------------------------------------------------------------
\* The library functions foo and echo and their unit tests.

\* The characters the strings handed to echo are made of.
Chars == {"h", "e", "l", "o"}

\* The strings handed to echo: "hello" and the other strings of up to
\* MaxStrLen of its characters.
Strings == SeqsUpTo(Chars, MaxStrLen)

\* foo with the wrong truth value.
foo_False == FALSE

\* pub fn foo() -> bool { true }
foo == TRUE

\* echo returning its text without the last character.
echo_DropLast(s) == IF s = <<>> THEN s ELSE SubSeq(s, 1, Len(s) - 1)

\* pub fn echo(s: &str) -> &str { s }
echo(s) == s

\* No test has run: foo and echo have not been called.
NoTestRun == [foo |-> "not run", echo |-> "not run", s |-> <<>>, echoed |-> <<>>]

\* assert!(cond): the test passes or panics.
assert(cond) == IF cond THEN "passed" ELSE "panicked"

-----------------------------------------------------------------------------
\* Exit statuses.

\* The status of a process whose main returns.
ExitSuccess == 0
\* ::std::process::exit(1) in main_error_chain.
ExitError == 1
\* The status of a Rust process whose main thread panics.
ExitPanic == 101

\* A panic: the message goes to standard error and the process ends.
Panic(msg) ==
    /\ stderr' = Append(stderr, "thread 'main' panicked at '" \o msg \o "'")
    /\ exitCode' = ExitPanic
    /\ pc' = "exited"

-----------------------------------------------------------------------------
\* The front-end.

\* A row of the usage text is filled with blanks up to this column before
\* the description.
RECURSIVE PadTo(_, _)
PadTo(row, n) == IF Len(row) < n THEN PadTo(row \o " ", n) ELSE row

\* Options::usage: the brief, an empty line, "Options:" and one row for each
\* option of the table: its short name, its long name and, from column 24,
\* its description.
usage(brief, opts) ==
    << brief, "", "Options:" >>
    \o [i \in 1..Len(opts) |->
           PadTo("    -" \o opts[i].short \o ", --" \o Str(opts[i].long) \o " ", 24)
               \o opts[i].desc]

\* main_help with a fixed name in place of the program name.
main_help_FixedName(prog, opts) == usage("Help: " \o "demo" \o " [options]", opts)

\* main_help: print!("{}", opts.usage(&brief)) with the brief made of the
\* program name.
main_help(prog, opts) == usage("Help: " \o prog \o " [options]", opts)

\* main_version printing the version without the patch number.
main_version_Short == << "x.y" >>

\* main_version: println!("x.y.z").
main_version == << "x.y.z" >>

-----------------------------------------------------------------------------
\* The demo routines. A routine that does not block is the lines it prints
\* and the message it panics with ("" when it returns normally).

Returns(out)      == [out |-> out, panic |-> ""]
Panics(out, msg)  == [out |-> out, panic |-> msg]

\* Result::expect on an Err: the panic message is the text given, then the
\* error.
expect_failed(msg, err) == msg \o ": " \o err

\* The states text.txt can be in when File::open and read_to_string run.
FileStates == {"readable", "absent", "unreadable"}

\* What one read_line on standard input can give: Ok(n) with a line, Ok(0)
\* at end of input, or Err.
ReadOutcomes == {"line", "eof", "err"}

\* x.cmp(&y) on integers.
cmp(x, y) == IF x < y THEN "Less" ELSE IF x > y THEN "Greater" ELSE "Equal"

\* str::trim: drop the white space at both ends.
RECURSIVE trim_start(_)
trim_start(s) == IF s # <<>> /\ Head(s) = " " THEN trim_start(Tail(s)) ELSE s
RECURSIVE trim_end(_)
trim_end(s) ==
    IF s # <<>> /\ s[Len(s)] = " " THEN trim_end(SubSeq(s, 1, Len(s) - 1)) ELSE s
trim(s) == trim_end(trim_start(s))

\* str::parse::<u32>: an optional "+", then one or more decimal digits, the
\* value at most u32::MAX; anything else is an Err.
Digits == <<"0", "1", "2", "3", "4", "5", "6", "7", "8", "9">>
DigitValue(c) == (CHOOSE i \in 1..Len(Digits) : Digits[i] = c) - 1
IsDigit(c) == \E i \in 1..Len(Digits) : Digits[i] = c
U32MaxDigits == <<4, 2, 9, 4, 9, 6, 7, 2, 9, 5>>
RECURSIVE StripZeros(_)
StripZeros(s) == IF Len(s) > 1 /\ Head(s) = "0" THEN StripZeros(Tail(s)) ELSE s
\* Whether the decimal digits s, without leading zeros, denote a u32.
FitsU32(s) ==
    \/ Len(s) < Len(U32MaxDigits)
    \/ /\ Len(s) = Len(U32MaxDigits)
       /\ \/ \A i \in 1..Len(s) : DigitValue(s[i]) = U32MaxDigits[i]
          \/ \E i \in 1..Len(s) :
                /\ DigitValue(s[i]) < U32MaxDigits[i]
                /\ \A j \in 1..(i - 1) : DigitValue(s[j]) = U32MaxDigits[j]
parse_u32(s) ==
    LET body == IF s # <<>> /\ Head(s) = "+" THEN Tail(s) ELSE s
    IN  IF body = <<>> \/ \E i \in 1..Len(body) : ~IsDigit(body[i])
        THEN [ok |-> FALSE, digits |-> <<>>]
        ELSE IF ~FitsU32(StripZeros(body))
        THEN [ok |-> FALSE, digits |-> <<>>]
        ELSE [ok |-> TRUE, digits |-> StripZeros(body)]

demo_println == Returns(<< "Hello", "Hello Alice and Bob" >>)

demo_compare ==
    LET o == cmp(1, 2)
    IN  Returns(<< CASE o = "Less"    -> "less"
                     [] o = "Greater" -> "greater"
                     [] o = "Equal"   -> "equal" >>)

demo_shadow ==
    LET x == <<" ", " ", " ", " ", "h", "e", "l", "l", "o", " ", " ", " ", " ", " ">>
    IN  Returns(<< "x is " \o Str(x) \o " before trimming",
                   "x is " \o Str(trim(x)) \o " after trimming" >>)

\* arr[0], arr[1], arr[2] of a three-element array: in bounds, no output.
demo_array_access ==
    LET arr == <<1, 2, 3>>
    IN  IF \A i \in {0, 1, 2} : i + 1 \in DOMAIN arr
        THEN Returns(<<>>) ELSE Panics(<<>>, "index out of bounds")

demo_tuple_destructure == Returns(<<>>)

demo_control_flow == Returns(<<>>)

\* gen_range(1, 101): the number drawn is a local that is dropped.
demo_random_variable == Returns(<<>>)

\* "123".parse() matched on Ok and Err: the Err arm gives 0, never a panic.
demo_result_with_error_handling ==
    LET r == parse_u32(<<"1", "2", "3">>)
        x == IF r.ok THEN r.digits ELSE <<"0">>
    IN  Returns(<<>>)

demo_string_append == Returns(<<>>)

\* Every statement of demo_output is commented out.
demo_output == Returns(<<>>)

\* demo_convert_a_string_to_a_number without the trim.
demo_convert_NoTrim ==
    LET x == <<" ", " ", "1", "2", "3", " ", " ">>
    IN  IF parse_u32(x).ok THEN Returns(<<>>) ELSE Panics(<<>>, expect_failed("must be a number", "ParseIntError"))

\* "  123  ".trim().parse().expect("must be a number").
demo_convert_a_string_to_a_number ==
    LET x == trim(<<" ", " ", "1", "2", "3", " ", " ">>)
    IN  IF parse_u32(x).ok THEN Returns(<<>>) ELSE Panics(<<>>, expect_failed("must be a number", "ParseIntError"))

\* File::open("text.txt").expect(..), then read_to_string(..).expect(..).
demo_file_path_to_string(file) ==
    IF file = "absent" THEN Panics(<<>>, expect_failed("file open failed", "NotFound"))
    ELSE IF file = "unreadable" THEN Panics(<<>>, expect_failed("file read failed", "InvalidData"))
    ELSE Returns(<<>>)

\* The two prompts of demo_input.
Prompt1 == "Please enter some text:"
Prompt2 == "Please enter some more text:"

\* main_run with demo_output called before demo_input.
RunSequence_OutputFirst ==
    << "demo_println", "demo_compare", "demo_shadow", "demo_array_access",
       "demo_tuple_destructure", "demo_control_flow", "demo_random_variable",
       "demo_result_with_error_handling", "demo_string_append", "demo_output",
       "demo_input", "demo_convert_a_string_to_a_number" >>

\* main_run with a call of demo_file_path_to_string added at its end.
RunSequence_WithFile ==
    << "demo_println", "demo_compare", "demo_shadow", "demo_array_access",
       "demo_tuple_destructure", "demo_control_flow", "demo_random_variable",
       "demo_result_with_error_handling", "demo_string_append", "demo_input",
       "demo_output", "demo_convert_a_string_to_a_number",
       "demo_file_path_to_string" >>

\* The calls main_run makes, in the order it makes them.
RunSequence ==
    << "demo_println", "demo_compare", "demo_shadow", "demo_array_access",
       "demo_tuple_destructure", "demo_control_flow", "demo_random_variable",
       "demo_result_with_error_handling", "demo_string_append", "demo_input",
       "demo_output", "demo_convert_a_string_to_a_number" >>

\* The routine a name of RunSequence denotes (demo_input, which blocks on
\* standard input, has actions of its own).
Routine(name, file) ==
    CASE name = "demo_println"                      -> demo_println
      [] name = "demo_compare"                      -> demo_compare
      [] name = "demo_shadow"                       -> demo_shadow
      [] name = "demo_array_access"                 -> demo_array_access
      [] name = "demo_tuple_destructure"            -> demo_tuple_destructure
      [] name = "demo_control_flow"                 -> demo_control_flow
      [] name = "demo_random_variable"              -> demo_random_variable
      [] name = "demo_result_with_error_handling"   -> demo_result_with_error_handling
      [] name = "demo_string_append"                -> demo_string_append
      [] name = "demo_output"                       -> demo_output
      [] name = "demo_convert_a_string_to_a_number" -> demo_convert_a_string_to_a_number
      [] name = "demo_file_path_to_string"          -> demo_file_path_to_string(file)

Init ==
    /\ program \in Programs
    /\ args \in SeqsUpTo(ArgTokens, MaxArgs)
    /\ textFile \in FileStates
    /\ pc = "main"
    /\ ip = 1
    /\ result = "none"
    /\ stdout = <<>>
    /\ stderr = <<>>
    /\ exitCode = NoExit
    /\ calls = <<>>
    /\ reads = <<>>
    /\ test = NoTestRun

\* The dispatch of main_getopts made with version looked at before help.
Request_VersionFirst(m) ==
    IF opt_present(m, "v") THEN "Version"
    ELSE IF opt_present(m, "h") THEN "Help"
    ELSE "Run"

\* The dispatch of main_getopts made without the test for the version flag.
Request_NoVersion(m) ==
    IF opt_present(m, "h") THEN "Help" ELSE "Run"

\* What main_getopts does with the matches: help when h is present, else
\* the version when v is present, else the demo run.
Request(m) ==
    IF opt_present(m, "h") THEN "Help"
    ELSE IF opt_present(m, "v") THEN "Version"
    ELSE "Run"

\* main_getopts without the return after main_help: the help is printed
\* and control falls through to the version test and to main_run.
main_getopts_NoReturn ==
    /\ pc = "main"
    /\ LET m == parse(args)
       IN  IF ~m.ok
           THEN /\ Panic(Fail_to_string(m))
                /\ calls' = calls \o <<"main_getopts">>
                /\ UNCHANGED <<stdout, result>>
           ELSE CASE Request(m) = "Help" /\ opt_present(m, "v") ->
                     /\ calls' = calls \o <<"main_getopts", "main_help", "main_version">>
                     /\ stdout' = stdout \o main_help(program, OptGroups) \o main_version
                     /\ result' = "Ok"
                     /\ pc' = "returned"
                     /\ UNCHANGED <<stderr, exitCode>>
                  [] Request(m) = "Help" /\ ~opt_present(m, "v") ->
                     /\ calls' = calls \o <<"main_getopts", "main_help", "main_run">>
                     /\ stdout' = stdout \o main_help(program, OptGroups)
                     /\ pc' = "run"
                     /\ UNCHANGED <<stderr, exitCode, result>>
                  [] Request(m) = "Version" ->
                     /\ calls' = calls \o <<"main_getopts", "main_version">>
                     /\ stdout' = stdout \o main_version
                     /\ result' = "Ok"
                     /\ pc' = "returned"
                     /\ UNCHANGED <<stderr, exitCode>>
                  [] Request(m) = "Run" ->
                     /\ calls' = calls \o <<"main_getopts", "main_run">>
                     /\ pc' = "run"
                     /\ UNCHANGED <<stdout, stderr, exitCode, result>>
    /\ UNCHANGED <<program, args, textFile, ip, reads>>
    /\ UNCHANGED test

\* main -> main_error_chain -> main_getopts, up to the dispatch: parse the
\* arguments, panic on a failure, else print help, print the version or
\* enter main_run.
main_getopts ==
    /\ pc = "main"
    /\ LET m == parse(args)
       IN  IF ~m.ok
           THEN /\ Panic(Fail_to_string(m))
                /\ calls' = calls \o <<"main_getopts">>
                /\ UNCHANGED <<stdout, result>>
           ELSE CASE Request(m) = "Help" ->
                     /\ calls' = calls \o <<"main_getopts", "main_help">>
                     /\ stdout' = stdout \o main_help(program, OptGroups)
                     /\ result' = "Ok"
                     /\ pc' = "returned"
                     /\ UNCHANGED <<stderr, exitCode>>
                  [] Request(m) = "Version" ->
                     /\ calls' = calls \o <<"main_getopts", "main_version">>
                     /\ stdout' = stdout \o main_version
                     /\ result' = "Ok"
                     /\ pc' = "returned"
                     /\ UNCHANGED <<stderr, exitCode>>
                  [] Request(m) = "Run" ->
                     /\ calls' = calls \o <<"main_getopts", "main_run">>
                     /\ pc' = "run"
                     /\ UNCHANGED <<stdout, stderr, exitCode, result>>
    /\ UNCHANGED <<program, args, textFile, ip, reads>>
    /\ UNCHANGED test

\* main_run: call the next routine of the sequence. demo_input prints its
\* first prompt and waits for a line; any other routine runs to its end,
\* and a panic in it ends the process.
main_run ==
    /\ pc = "run"
    /\ ip <= Len(RunSequence)
    /\ LET name == RunSequence[ip]
       IN  /\ calls' = Append(calls, name)
           /\ IF name = "demo_input"
              THEN /\ stdout' = Append(stdout, Prompt1)
                   /\ pc' = "read1"
                   /\ UNCHANGED <<ip, stderr, exitCode>>
              ELSE LET r == Routine(name, textFile)
                   IN  /\ stdout' = stdout \o r.out
                       /\ IF r.panic # ""
                          THEN Panic(r.panic) /\ UNCHANGED ip
                          ELSE /\ ip' = ip + 1
                               /\ UNCHANGED <<pc, stderr, exitCode>>
    /\ UNCHANGED <<program, args, textFile, result, reads>>
    /\ UNCHANGED test

\* The first read_line of demo_input had it been given an expect like the
\* second: an Err panics.
demo_input_read1_Expect ==
    /\ pc = "read1"
    /\ \E r \in ReadOutcomes :
          /\ reads' = Append(reads, r)
          /\ IF r = "err"
             THEN Panic(expect_failed("oops", "IoError")) /\ UNCHANGED stdout
             ELSE /\ stdout' = Append(stdout, Prompt2)
                  /\ pc' = "read2"
                  /\ UNCHANGED <<stderr, exitCode>>
    /\ UNCHANGED <<program, args, textFile, ip, result, calls>>
    /\ UNCHANGED test

\* demo_input, the first read_line: its Result is dropped, so an Err goes
\* unnoticed; the second prompt follows.
demo_input_read1 ==
    /\ pc = "read1"
    /\ \E r \in ReadOutcomes : reads' = Append(reads, r)
    /\ stdout' = Append(stdout, Prompt2)
    /\ pc' = "read2"
    /\ UNCHANGED <<program, args, textFile, ip, result, stderr, exitCode, calls>>
    /\ UNCHANGED test

\* The second read_line of demo_input had its Result been dropped like that
\* of the first: an Err goes unnoticed.
demo_input_read2_Swallow ==
    /\ pc = "read2"
    /\ \E r \in ReadOutcomes : reads' = Append(reads, r)
    /\ pc' = "run"
    /\ ip' = ip + 1
    /\ UNCHANGED <<program, args, textFile, result, stdout, stderr, exitCode, calls>>
    /\ UNCHANGED test

\* demo_input, the second read_line with .expect("oops"): an Err panics,
\* anything else returns to main_run.
demo_input_read2 ==
    /\ pc = "read2"
    /\ \E r \in ReadOutcomes :
          /\ reads' = Append(reads, r)
          /\ IF r = "err"
             THEN Panic(expect_failed("oops", "IoError")) /\ UNCHANGED ip
             ELSE /\ pc' = "run"
                  /\ ip' = ip + 1
                  /\ UNCHANGED <<stderr, exitCode>>
    /\ UNCHANGED <<program, args, textFile, result, stdout, calls>>
    /\ UNCHANGED test

\* main_run returns Ok(()) after the last routine.
main_run_return ==
    /\ pc = "run"
    /\ ip > Len(RunSequence)
    /\ result' = "Ok"
    /\ pc' = "returned"
    /\ UNCHANGED <<program, args, textFile, ip, stdout, stderr, exitCode, calls, reads>>
    /\ UNCHANGED test

\* main_error_chain once main_getopts has returned: an Err is printed to
\* standard error and the process exits with 1; otherwise main returns.
main_error_chain ==
    /\ pc = "returned"
    /\ IF result = "Err"
       THEN /\ stderr' = Append(stderr, "Error: " \o result)
            /\ exitCode' = ExitError
       ELSE /\ exitCode' = ExitSuccess
            /\ UNCHANGED stderr
    /\ pc' = "exited"
    /\ UNCHANGED <<program, args, textFile, ip, result, stdout, calls, reads>>
    /\ UNCHANGED test

Next ==
    \/ main_getopts
    \/ main_run
    \/ demo_input_read1
    \/ demo_input_read2
    \/ main_run_return
    \/ main_error_chain

Spec == Init /\ [][Next]_vars

\* tests::foo_test: assert!(foo()).
foo_test ==
    /\ test.foo = "not run"
    /\ test' = [test EXCEPT !.foo = assert(foo)]
    /\ UNCHANGED <<program, args, textFile, pc, ip, result, stdout, stderr, exitCode,
                   calls, reads>>

\* tests::echo_test: assert_eq!(echo(s), s), for "hello" and for any other
\* string s.
echo_test ==
    /\ test.echo = "not run"
    /\ \E s \in Strings :
          test' = [test EXCEPT !.s = s, !.echoed = echo(s),
                               !.echo = assert(echo(s) = s)]
    /\ UNCHANGED <<program, args, textFile, pc, ip, result, stdout, stderr, exitCode,
                   calls, reads>>

\* cargo test: the tests run in any order; the program itself is not
\* started.
TestInit == Init /\ program = "demo" /\ args = <<>> /\ textFile = "readable"
TestNext == foo_test \/ echo_test
TestSpec == TestInit /\ [][TestNext]_vars

\* The invocations with no argument. The process is the only thread and
\* runs until it exits: a step that can be taken is taken.
InitNoArgs == Init /\ args = <<>>
NoArgsSpec == InitNoArgs /\ [][Next]_vars /\ WF_vars(Next)

-----------------------------------------------------------------------------
\* Vocabulary of the properties. An argument list is described here by the
\* tokens it holds, independently of the parser.

HelpTokens    == {Tok_h, Tok_help}
VersionTokens == {Tok_v, Tok_version}
FlagTokens    == HelpTokens \cup VersionTokens

\* How many arguments are tokens of S.
Count(S) == Cardinality({i \in DOMAIN args : args[i] \in S})

\* Every argument is one of the four recognized flag tokens.
OnlyFlags == \A i \in DOMAIN args : args[i] \in FlagTokens

\* No flag is given more than once, its two forms counted together.
NoRepeat == Count(HelpTokens) <= 1 /\ Count(VersionTokens) <= 1
Repeated == ~NoRepeat

\* The function f has been entered.
Dispatched(f) == \E i \in DOMAIN calls : calls[i] = f

\* main_getopts has run.
Parsed == pc # "main"

\* None of help, version and the demo run has been dispatched.
NothingDispatched ==
    ~Dispatched("main_help") /\ ~Dispatched("main_version") /\ ~Dispatched("main_run")

\* The process ended in main_getopts on a parse failure with this message.
ParseFailedWith(msg) ==
    /\ pc = "exited"
    /\ exitCode # ExitSuccess
    /\ calls = <<"main_getopts">>
    /\ stderr = << "thread 'main' panicked at '" \o msg \o "'" >>
    /\ stdout = <<>>

\* An option token is a token of more than one character that starts with a
\* dash and is not the "--" terminator.
OptionToken(tok) == Len(tok) > 1 /\ tok[1] = "-" /\ tok # Tok_dashes

\* The option name a long option token carries, up to its "=value".
LongNameOf(tok) ==
    LET tail == SubSeq(tok, 3, Len(tok))
        eqs  == {i \in 1..Len(tail) : tail[i] = "="}
    IN  IF eqs = {} THEN tail
        ELSE SubSeq(tail, 1, (CHOOSE i \in eqs : \A j \in eqs : i <= j) - 1)

\* The names a token asks for that are not options of the program, in the
\* order of the token: a long name other than help and version, or the
\* characters other than h and v of a short cluster.
UnknownNames(tok) ==
    IF ~OptionToken(tok) THEN <<>>
    ELSE IF tok[2] = "-"
    THEN IF LongNameOf(tok) \in {<<"h", "e", "l", "p">>, <<"v", "e", "r", "s", "i", "o", "n">>}
         THEN <<>> ELSE << LongNameOf(tok) >>
    ELSE SelectSeq([j \in 1..(Len(tok) - 1) |-> <<tok[j + 1]>>],
                   LAMBDA c : c \notin {<<"h">>, <<"v">>})

\* Argument i comes before any "--" terminator.
BeforeTerminator(i) == \A j \in 1..(i - 1) : args[j] # Tok_dashes

\* The positions of the option tokens with an unknown name that the parser
\* gets to see.
UnknownAt == {i \in DOMAIN args : BeforeTerminator(i) /\ UnknownNames(args[i]) # <<>>}

\* The positions of the recognized long flags that carry an "=value".
ValuedFlagAt ==
    {i \in DOMAIN args :
        /\ BeforeTerminator(i) /\ OptionToken(args[i]) /\ args[i][2] = "-"
        /\ UnknownNames(args[i]) = <<>>
        /\ \E k \in 1..Len(args[i]) : args[i][k] = "="}

FirstOf(S) == CHOOSE i \in S : \A j \in S : i <= j

-----------------------------------------------------------------------------
\* C1, as stated: every list of recognized flags that holds -h or --help is
\* a Help request, whatever other flags it holds: main_help is called and
\* neither main_version nor main_run is.
C1_HelpWhateverOtherFlags ==
    (OnlyFlags /\ Count(HelpTokens) >= 1 /\ Parsed)
        => (Dispatched("main_help") /\ ~Dispatched("main_version") /\ ~Dispatched("main_run"))

\* C1, amended: every list of recognized flags in which no flag is given
\* more than once and that holds -h or --help is a Help request: main_help
\* is called and neither main_version nor main_run is, also when -v or
\* --version stands before or after it.
C1_HelpPriority ==
    (OnlyFlags /\ NoRepeat /\ Count(HelpTokens) >= 1 /\ Parsed)
        => /\ Dispatched("main_help")
           /\ ~Dispatched("main_version")
           /\ ~Dispatched("main_run")
           /\ calls = <<"main_getopts", "main_help">>

\* Help was dispatched for a list that gives the version flag before the
\* help flag.
C1_Witness ==
    /\ args = <<Tok_version, Tok_h>>
    /\ Dispatched("main_help")
    /\ pc = "exited"

\* A bare word: a token that does not start with a dash.
BareWord(tok) == tok = <<>> \/ tok[1] # "-"

\* C2, as stated: a list that holds a token other than the four flags, be
\* it an unknown option or a bare word such as foo, is a usage error and
\* nothing is dispatched.
C2_AnyOtherTokenIsAnError ==
    (/\ \E i \in DOMAIN args : args[i] \notin FlagTokens
     /\ \A i \in DOMAIN args :
           args[i] \in FlagTokens \/ BareWord(args[i]) \/ UnknownNames(args[i]) # <<>>
     /\ Parsed)
        => (pc = "exited" /\ exitCode # ExitSuccess /\ NothingDispatched)

\* C2, amended: a list in which an option token before any "--" names an
\* option other than h, help, v and version is a parse failure: nothing is
\* dispatched, nothing is written to standard output, and the message on
\* standard error names the first such option, without its dashes, unless
\* a recognized flag carrying "=value" stands before it. A bare word is not
\* an error: a non-empty list of bare words is a Run request.
C2_UnknownOptionIsAnError ==
    /\ (UnknownAt # {} /\ Parsed)
          => /\ pc = "exited"
             /\ exitCode # ExitSuccess
             /\ NothingDispatched
             /\ stdout = <<>>
             /\ (\A j \in ValuedFlagAt : j > FirstOf(UnknownAt))
                   => ParseFailedWith("Unrecognized option: '"
                                        \o Str(UnknownNames(args[FirstOf(UnknownAt)])[1])
                                        \o "'")
    /\ (args # <<>> /\ (\A i \in DOMAIN args : args[i] = Tok_foo) /\ Parsed)
          => (Dispatched("main_run") /\ calls[2] = "main_run")

\* A list with an unknown long option after a recognized flag has failed
\* with the message that names the option.
C2_Witness ==
    /\ args = <<Tok_v, Tok_bogus>>
    /\ ParseFailedWith("Unrecognized option: 'bogus'")

\* C3: on an option-parse failure the program writes a diagnostic about the
\* offending token to standard error, nothing to standard output, and ends
\* with exit code 1.
C3_ParseFailureExitsWithOne ==
    (UnknownAt # {} /\ pc = "exited")
        => (exitCode = 1 /\ stdout = <<>> /\ stderr # <<>>)

\* C4, as stated: a list of recognized flags with a flag given more than
\* once parses like the list with the flag given once: it is a Help request
\* when it holds a help flag and a Version request otherwise, never a parse
\* failure.
C4_RepetitionIsIdempotent ==
    (OnlyFlags /\ Repeated /\ Parsed)
        => /\ ~(pc = "exited" /\ exitCode # ExitSuccess)
           /\ IF Count(HelpTokens) >= 1
              THEN calls = <<"main_getopts", "main_help">>
              ELSE calls = <<"main_getopts", "main_version">>

\* C4, amended: a recognized flag may be given at most once, its short and
\* long form counted together: a list of recognized flags in which a flag
\* is given more than once is a parse failure ("Option '..' given more
\* than once", naming help when help is repeated and version otherwise)
\* and dispatches nothing; given once, either form of a flag gives the same
\* request.
C4_RepetitionIsRejected ==
    /\ (OnlyFlags /\ Repeated /\ Parsed)
          => /\ NothingDispatched
             /\ ParseFailedWith(
                    IF Count(HelpTokens) > 1
                    THEN "Option 'help' given more than once"
                    ELSE "Option 'version' given more than once")
    /\ (args \in {<<Tok_h>>, <<Tok_help>>} /\ Parsed)
          => calls = <<"main_getopts", "main_help">>
    /\ (args \in {<<Tok_v>>, <<Tok_version>>} /\ Parsed)
          => calls = <<"main_getopts", "main_version">>

\* The version flag given in its short and its long form has been rejected.
C4_Witness ==
    /\ args = <<Tok_v, Tok_version>>
    /\ pc = "exited"
    /\ exitCode = ExitPanic
    /\ NothingDispatched

\* C5, as stated: every list of recognized flags that holds -v or --version
\* and neither -h nor --help is a Version request: main_version is called
\* and neither main_help nor main_run is.
C5_VersionWithoutHelp ==
    (OnlyFlags /\ Count(VersionTokens) >= 1 /\ Count(HelpTokens) = 0 /\ Parsed)
        => (Dispatched("main_version") /\ ~Dispatched("main_help") /\ ~Dispatched("main_run"))

\* C5, amended: every list of recognized flags that holds -v or --version
\* exactly once (both forms counted together) and neither -h nor --help is
\* a Version request: main_version is called and neither main_help nor
\* main_run is.
C5_VersionOnceWithoutHelp ==
    (OnlyFlags /\ Count(VersionTokens) = 1 /\ Count(HelpTokens) = 0 /\ Parsed)
        => /\ calls = <<"main_getopts", "main_version">>
           /\ ~Dispatched("main_help")
           /\ ~Dispatched("main_run")

\* The version was dispatched for the long form of the flag.
C5_Witness ==
    /\ args = <<Tok_version>>
    /\ Dispatched("main_version")
    /\ pc = "exited"

\* The demo routines entered so far, in order: what follows main_getopts
\* and main_run in calls.
RoutinesCalled == SubSeq(calls, 3, Len(calls))

IsPrefix(a, b) == Len(a) <= Len(b) /\ SubSeq(b, 1, Len(a)) = a

\* The lines of s that are lines of t.
CommonLines(s, t) == {i \in DOMAIN s : \E j \in DOMAIN t : s[i] = t[j]}

\* The sequence of routines main_run goes through.
DemoSequence ==
    << "demo_println", "demo_compare", "demo_shadow", "demo_array_access",
       "demo_tuple_destructure", "demo_control_flow", "demo_random_variable",
       "demo_result_with_error_handling", "demo_string_append", "demo_input",
       "demo_output", "demo_convert_a_string_to_a_number" >>

\* C6: the empty argument list is a Run request: main_run is entered and
\* neither the help text nor the version string is printed; the process
\* ends, and when both reads of standard input got a line it has gone
\* through the whole sequence and ends with exit code 0.
C6_EmptyArgsRun ==
    /\ []((args = <<>> /\ Parsed)
            => /\ IsPrefix(<<"main_getopts", "main_run">>, calls)
               /\ ~Dispatched("main_help")
               /\ ~Dispatched("main_version")
               /\ CommonLines(stdout, main_help(program, OptGroups) \o main_version) = {})
    /\ []((args = <<>> /\ pc = "exited" /\ reads = <<"line", "line">>)
            => /\ exitCode = 0
               /\ RoutinesCalled = DemoSequence
               /\ stderr = <<>>)
    /\ ((args = <<>> /\ pc = "main")
            ~> (pc = "exited" /\ (reads = <<"line", "line">> => exitCode = 0)))

\* The run with no argument and two lines on standard input has ended with
\* exit code 0.
C6_Witness ==
    /\ args = <<>>
    /\ reads = <<"line", "line">>
    /\ pc = "exited"
    /\ exitCode = 0

\* C7, as stated: a Run request goes through print-greeting, compare,
\* shadow-and-trim, array index, tuple, branches-and-loops, random integer,
\* parse-with-fallback, string append, the line read (twice) and finally
\* the read of the text resource, and nothing else.
C7_SequenceEndsWithFileRead ==
    (Dispatched("main_run") /\ result = "Ok")
        => /\ RoutinesCalled =
                << "demo_println", "demo_compare", "demo_shadow", "demo_array_access",
                   "demo_tuple_destructure", "demo_control_flow", "demo_random_variable",
                   "demo_result_with_error_handling", "demo_string_append",
                   "demo_input", "demo_file_path_to_string" >>
           /\ Len(reads) = 2

\* C7, amended: a Run request goes through demo_println, demo_compare,
\* demo_shadow, demo_array_access, demo_tuple_destructure,
\* demo_control_flow, demo_random_variable,
\* demo_result_with_error_handling, demo_string_append, demo_input (one
\* call, which reads a line twice), and then demo_output and
\* demo_convert_a_string_to_a_number, each once, in this order and with
\* nothing else; the text resource is not read.
C7_DemoSequence ==
    Dispatched("main_run")
        => /\ IsPrefix(RoutinesCalled, DemoSequence)
           /\ ~Dispatched("demo_file_path_to_string")
           /\ Len(reads) <= 2
           /\ (reads # <<>> => Dispatched("demo_input"))
           /\ (Dispatched("demo_output") => Len(reads) = 2)
           /\ (result = "Ok" => (RoutinesCalled = DemoSequence /\ Len(reads) = 2))

\* main_run has returned after the whole sequence.
C7_Witness ==
    /\ Dispatched("main_run")
    /\ result = "Ok"
    /\ RoutinesCalled = DemoSequence
    /\ pc = "exited"

\* C8, as stated: on a Run request with text.txt absent or unreadable the
\* process does not end with exit code 0.
C8_MissingFileAborts ==
    (Dispatched("main_run") /\ textFile # "readable" /\ pc = "exited")
        => exitCode # 0

\* C8, amended: on a Run request the state of text.txt has no effect: with
\* the file absent or unreadable demo_file_path_to_string is still never
\* called, no panic about the file is reported, and the process ends with
\* exit code 0 exactly when the second read of standard input did not fail.
C8_MissingFileIsNotNoticed ==
    (Dispatched("main_run") /\ textFile # "readable")
        => /\ ~Dispatched("demo_file_path_to_string")
           /\ \A i \in DOMAIN stderr :
                 stderr[i] = "thread 'main' panicked at 'oops: IoError'"
           /\ (pc = "exited" => (exitCode = 0 <=> reads[2] # "err"))

\* A run with text.txt absent has ended with exit code 0.
C8_Witness ==
    /\ Dispatched("main_run")
    /\ textFile = "absent"
    /\ pc = "exited"
    /\ exitCode = 0

\* C9: with the single argument --version or -v the program writes the line
\* x.y.z and nothing else to standard output and ends with exit code 0.
C9_VersionOutput ==
    (args \in {<<Tok_version>>, <<Tok_v>>})
        => /\ (Parsed => (stdout = <<"x.y.z">> /\ stderr = <<>>))
           /\ (pc = "exited" => exitCode = 0)

\* The run with -v alone has ended after printing the version.
C9_Witness ==
    /\ args = <<Tok_v>>
    /\ stdout = <<"x.y.z">>
    /\ pc = "exited"
    /\ exitCode = 0

\* C10: on a Help request standard output holds the usage text: its first
\* line is "Help: <program> [options]" with the program name of the
\* invocation, it has one row for each of the two flags, help and version,
\* with a description, and the process ends with exit code 0.
C10_HelpOutput ==
    Dispatched("main_help")
        => /\ Len(stdout) = 5
           /\ stdout[1] = "Help: " \o program \o " [options]"
           /\ stdout[4] = "    -h, --help          print the help information"
           /\ stdout[5] = "    -v, --version       print the version number"
           /\ (pc = "exited" => exitCode = 0)

\* Help was printed for the program name that is not the default one.
C10_Witness ==
    /\ Dispatched("main_help")
    /\ program = "./target/debug/demo"
    /\ stdout[1] = "Help: ./target/debug/demo [options]"
    /\ pc = "exited"
    /\ exitCode = 0

\* The position of demo_input in the sequence of main_run.
InputIndex == CHOOSE i \in DOMAIN DemoSequence : DemoSequence[i] = "demo_input"

\* The positions of a line in standard output.
LinesAt(line) == {i \in DOMAIN stdout : stdout[i] = line}

\* The panic of the second read_line of demo_input.
OopsLine == "thread 'main' panicked at 'oops: IoError'"

\* C11: in demo_input a failure of the first read is swallowed: the second
\* prompt is printed and the second read is made; a failure of the second
\* read ends the process with a panic; when no read fails the routine
\* returns to main_run with both prompts printed; and each read is made
\* with its prompt already printed, the first prompt before the second.
C11_InputReads ==
    /\ []((Len(reads) = 1 /\ reads[1] = "err")
            => /\ pc = "read2"
               /\ exitCode = NoExit
               /\ stderr = <<>>
               /\ stdout[Len(stdout)] = Prompt2)
    /\ []((Len(reads) = 2 /\ reads[2] = "err")
            => /\ pc = "exited"
               /\ exitCode = ExitPanic
               /\ stderr = <<OopsLine>>
               /\ calls[Len(calls)] = "demo_input")
    /\ []((Len(reads) = 2 /\ reads[2] # "err")
            => /\ stderr = <<>>
               /\ ip > InputIndex
               /\ \E i \in LinesAt(Prompt1) : \E j \in LinesAt(Prompt2) : i < j
               /\ Cardinality(LinesAt(Prompt1)) = 1
               /\ Cardinality(LinesAt(Prompt2)) = 1)
    /\ [][Len(reads') > Len(reads)
            => IF reads = <<>>
               THEN stdout[Len(stdout)] = Prompt1
               ELSE stdout[Len(stdout)] = Prompt2]_vars

\* The first read failed, the second did not, and the run went on to its
\* end.
C11_Witness ==
    /\ reads = <<"err", "line">>
    /\ pc = "exited"
    /\ exitCode = ExitSuccess
    /\ LinesAt(Prompt2) # {}

\* C12: echo returns the text it is given, unchanged, for every string, and
\* foo returns true: whatever was handed to echo came back as it was, and
\* neither test panics.
C12_EchoAndFoo ==
    /\ (test.echo # "not run" => (test.echoed = test.s /\ test.echo = "passed"))
    /\ (test.foo # "not run" => (foo = TRUE /\ test.foo = "passed"))

\* Both tests have run, echo on "hello".
C12_Witness ==
    /\ test.s = <<"h", "e", "l", "l", "o">>
    /\ test.echoed = <<"h", "e", "l", "l", "o">>
    /\ test.echo = "passed"
    /\ test.foo = "passed"

\* The two fatal failures: opts.parse failed (main_getopts ran and
\* dispatched nothing), and the second read of demo_input failed.
ParseFatal == Parsed /\ NothingDispatched
ReadFatal  == Len(reads) = 2 /\ reads[2] = "err"

\* C13: no fatal failure is recovered from. After a parse failure the
\* process has ended with a status other than 0, no routine has run and
\* standard output is empty; after a failure of the second read the process
\* has ended with a status other than 0, demo_input is the last routine
\* entered (demo_output and demo_convert_a_string_to_a_number never run)
\* and the second prompt is the last line of standard output; and from
\* either state no step is taken: nothing more is called or written and
\* the status never becomes 0.
C13_NoRecovery ==
    /\ [](ParseFatal
            => /\ pc = "exited"
               /\ exitCode # ExitSuccess
               /\ calls = <<"main_getopts">>
               /\ stdout = <<>>
               /\ Len(stderr) = 1)
    /\ [](ReadFatal
            => /\ pc = "exited"
               /\ exitCode # ExitSuccess
               /\ RoutinesCalled = SubSeq(DemoSequence, 1, InputIndex)
               /\ ~Dispatched("demo_output")
               /\ ~Dispatched("demo_convert_a_string_to_a_number")
               /\ stdout[Len(stdout)] = Prompt2
               /\ result # "Ok")
    /\ [][(ParseFatal \/ ReadFatal)
            => /\ calls' = calls
               /\ stdout' = stdout
               /\ exitCode' = exitCode
               /\ pc' = pc]_vars

\* The second read failed after the first one had failed too, and the
\* process has ended there.
C13_Witness ==
    /\ reads = <<"err", "err">>
    /\ pc = "exited"
    /\ exitCode = ExitPanic
    /\ calls[Len(calls)] = "demo_input"

\* The functions of the front-end, which are not demo routines.
FrontEnd == {"main_getopts", "main_help", "main_version", "main_run"}

\* A demo routine has been entered.
DemoRoutineEntered == \E i \in DOMAIN calls : calls[i] \notin FrontEnd

\* C14: every invocation dispatches at most one of help, version and run,
\* and the demo routines are reached through main_run only: as long as
\* main_run has not been dispatched no demo routine has been entered, no
\* prompt has been printed and standard input has not been read; and an
\* invocation that is a Help or Version request or a parse failure never
\* waits for input: after main_getopts it has ended, or main_getopts has
\* returned Ok and main has only to return.
C14_OnlyRunReachesTheDemos ==
    /\ Cardinality({f \in {"main_help", "main_version", "main_run"} : Dispatched(f)}) <= 1
    /\ DemoRoutineEntered => (Len(calls) > 2 /\ calls[2] = "main_run")
    /\ ~Dispatched("main_run")
          => /\ ~DemoRoutineEntered
             /\ reads = <<>>
             /\ LinesAt(Prompt1) = {}
             /\ LinesAt(Prompt2) = {}
             /\ pc \in {"main", "returned", "exited"}
    /\ (Parsed /\ ~Dispatched("main_run"))
          => /\ pc \in {"returned", "exited"}
             /\ pc = "returned" => result = "Ok"
             /\ (pc = "exited" /\ ~NothingDispatched) => exitCode = ExitSuccess

\* A Help request has ended without a read of standard input.
C14_Witness ==
    /\ args = <<Tok_help>>
    /\ calls = <<"main_getopts", "main_help">>
    /\ reads = <<>>
    /\ pc = "exited"
    /\ exitCode = ExitSuccess

====
